---- MODULE Spec2Model ----
(***************************************************************************)
(* pyash: a line-oriented ledger parser (MovesFile.iterator / parse /      *)
(* filter), the Move record, the aggregation loop of MovesFile.__init__,   *)
(* the Balance totals and the command dispatch of pyash().                 *)
(*                                                                         *)
(* Text is modelled as sequences of one-character strings, so that the     *)
(* slicing, stripping and splitting done by the code are computed and not  *)
(* assumed.  A Decimal is a signed coefficient c with f fractional digits  *)
(* (value c / 10^f); a datetime is the integer year*10000+month*100+day,   *)
(* which orders as datetime does.                                          *)
(***************************************************************************)
EXTENDS Integers, Sequences, FiniteSets, TLC

VARIABLES
    file,        \* the lines of the input file args['-i']
    args,        \* the options handed to MovesFile
    pc,          \* position of the run
    it_i,        \* iterator(): i, the number of physical lines read
    it_periode,  \* iterator(): periode
    it_done,     \* iterator(): the generator has finished
    i,           \* parse(): i
    line,        \* parse(): line
    m,           \* parse(): m
    move,        \* parse(): move
    out,         \* the records yielded by parse() so far
    start_date,  \* self.start_date
    end_date,    \* self.end_date
    accounts,    \* self.accounts
    kinds,       \* self.kinds
    moves,       \* self.moves
    balances,    \* self.balances
    k,           \* __init__: number of moves the aggregation loop has taken
    error,       \* the exception that ended the run, if any
    report,      \* what the command printed
    roles        \* history: the roles each physical line was consumed in

vars == <<file, args, pc, it_i, it_periode, it_done, i, line, m, move, out,
          start_date, end_date, accounts, kinds, moves, balances, k, error,
          report, roles>>

-----------------------------------------------------------------------------
(* Bounds of the model.                                                    *)

MaxLines == 3

MaxMoveLines == 3

MaxPeriodLines == 3

MaxExtraLines == 3

-----------------------------------------------------------------------------
(* Text helpers: Python's str methods as the code uses them.               *)

None == <<"None">>

\* the one character U+20AC, the currency glyph
Euro == "EUR"

Min(a, b) == IF a <= b THEN a ELSE b

Max(a, b) == IF a >= b THEN a ELSE b

Whitespace == {" ", "\n", "\t"}

Digits == {"0", "1", "2", "3", "4", "5", "6", "7", "8", "9"}

DigitVal(c) ==
    CASE c = "0" -> 0 [] c = "1" -> 1 [] c = "2" -> 2 [] c = "3" -> 3
      [] c = "4" -> 4 [] c = "5" -> 5 [] c = "6" -> 6 [] c = "7" -> 7
      [] c = "8" -> 8 [] c = "9" -> 9

DigitChar(d) == <<"0", "1", "2", "3", "4", "5", "6", "7", "8", "9">>[d + 1]

\* s[a:b] for 0 <= a, with b already resolved to a non-negative index
Slice(s, a, b) == SubSeq(s, a + 1, Min(b, Len(s)))

StartsWith(s, p) == Len(s) >= Len(p) /\ SubSeq(s, 1, Len(p)) = p

\* str.isdigit(): false on the empty string
IsDigit(s) == s # <<>> /\ \A n \in 1..Len(s) : s[n] \in Digits

\* first and last index of s outside the set of characters cs
FirstNotIn(s, cs) ==
    IF \E n \in 1..Len(s) : s[n] \notin cs
    THEN CHOOSE n \in 1..Len(s) :
            s[n] \notin cs /\ \A j \in 1..(n - 1) : s[j] \in cs
    ELSE Len(s) + 1

LastNotIn(s, cs) ==
    IF \E n \in 1..Len(s) : s[n] \notin cs
    THEN CHOOSE n \in 1..Len(s) :
            s[n] \notin cs /\ \A j \in (n + 1)..Len(s) : s[j] \in cs
    ELSE 0

StripChars(s, cs) == SubSeq(s, FirstNotIn(s, cs), LastNotIn(s, cs))

\* str.strip()
Strip(s) == StripChars(s, Whitespace)

\* str.rstrip(chars)
RStrip(s, cs) == SubSeq(s, 1, LastNotIn(s, cs))

\* str.split(sep) for a one-character sep: empty fields are kept
RECURSIVE Split(_, _)
Split(s, sep) ==
    IF \E n \in 1..Len(s) : s[n] = sep
    THEN LET n == CHOOSE n \in 1..Len(s) :
                     s[n] = sep /\ \A j \in 1..(n - 1) : s[j] # sep
         IN  <<SubSeq(s, 1, n - 1)>> \o Split(SubSeq(s, n + 1, Len(s)), sep)
    ELSE <<s>>

\* str.split(): runs of whitespace separate, no empty fields
RECURSIVE SplitWS(_)
SplitWS(s) ==
    LET a == FirstNotIn(s, Whitespace)
    IN  IF a > Len(s) THEN <<>>
        ELSE LET r == SubSeq(s, a, Len(s))
                 e == IF \E n \in 1..Len(r) : r[n] \in Whitespace
                      THEN (CHOOSE n \in 1..Len(r) :
                               r[n] \in Whitespace
                               /\ \A j \in 1..(n - 1) : r[j] \notin Whitespace) - 1
                      ELSE Len(r)
             IN  <<SubSeq(r, 1, e)>> \o SplitWS(SubSeq(r, e + 1, Len(r)))

Upper == <<"A", "B", "C", "D", "E", "F", "G", "H", "I", "J", "K", "L", "M",
           "N", "O", "P", "Q", "R", "S", "T", "U", "V", "W", "X", "Y", "Z">>

Lower == <<"a", "b", "c", "d", "e", "f", "g", "h", "i", "j", "k", "l", "m",
           "n", "o", "p", "q", "r", "s", "t", "u", "v", "w", "x", "y", "z">>

LowerChar(c) ==
    IF \E n \in 1..26 : Upper[n] = c
    THEN Lower[CHOOSE n \in 1..26 : Upper[n] = c] ELSE c

UpperChar(c) ==
    IF \E n \in 1..26 : Lower[n] = c
    THEN Upper[CHOOSE n \in 1..26 : Lower[n] = c] ELSE c

\* str.lower() and str.upper()
ToLower(s) == [n \in 1..Len(s) |-> LowerChar(s[n])]

ToUpper(s) == [n \in 1..Len(s) |-> UpperChar(s[n])]

\* sub in s
Contains(s, sub) ==
    \E n \in 0..(Len(s) - Len(sub)) : SubSeq(s, n + 1, n + Len(sub)) = sub

RECURSIVE Pow10(_)
Pow10(n) == IF n = 0 THEN 1 ELSE 10 * Pow10(n - 1)

RECURSIVE DigitsVal(_)
DigitsVal(s) ==
    IF s = <<>> THEN 0
    ELSE 10 * DigitsVal(SubSeq(s, 1, Len(s) - 1)) + DigitVal(s[Len(s)])

RECURSIVE NatStr(_)
NatStr(n) ==
    IF n < 10 THEN <<DigitChar(n)>> ELSE NatStr(n \div 10) \o <<DigitChar(n % 10)>>

\* n written with at least w digits, zero padded
RECURSIVE PadStr(_, _)
PadStr(n, w) ==
    LET s == NatStr(n) IN
    IF Len(s) >= w THEN s ELSE [j \in 1..(w - Len(s)) |-> "0"] \o s

-----------------------------------------------------------------------------
(* Decimal and datetime.                                                   *)

\* Decimal(s): [sign] digits [. digits] | [sign] . digits ; anything else
\* raises decimal.InvalidOperation (ok = FALSE)
ParseDecimal(s) ==
    LET body == IF s # <<>> /\ s[1] \in {"-", "+"} THEN Tail(s) ELSE s
        neg  == s # <<>> /\ s[1] = "-"
        parts == Split(body, ".")
        ip   == parts[1]
        fp   == IF Len(parts) = 2 THEN parts[2] ELSE <<>>
        wellformed ==
            /\ Len(parts) \in {1, 2}
            /\ \A n \in 1..Len(ip) : ip[n] \in Digits
            /\ \A n \in 1..Len(fp) : fp[n] \in Digits
            /\ Len(ip) + Len(fp) >= 1
        mag  == DigitsVal(ip \o fp)
    IN  IF wellformed
        THEN [ok |-> TRUE, c |-> IF neg THEN 0 - mag ELSE mag, f |-> Len(fp)]
        ELSE [ok |-> FALSE, c |-> 0, f |-> 0]

\* Decimal + Decimal: exact, the result keeps the larger number of
\* fractional digits
DecAdd(a, b) ==
    LET f == Max(a.f, b.f)
    IN  [c |-> a.c * Pow10(f - a.f) + b.c * Pow10(f - b.f), f |-> f]

DecNeg(a) == [c |-> 0 - a.c, f |-> a.f]

\* Decimal * int
DecMul(a, n) == [c |-> a.c * n, f |-> a.f]

\* numeric comparison of Decimals
DecEq(a, b) == a.c * Pow10(b.f) = b.c * Pow10(a.f)

DecZero == [c |-> 0, f |-> 0]

\* str(Decimal)
DecStr(a) ==
    LET mag == IF a.c < 0 THEN 0 - a.c ELSE a.c
        ds  == PadStr(mag, a.f + 1)
        sgn == IF a.c < 0 THEN <<"-">> ELSE <<>>
    IN  IF a.f = 0 THEN sgn \o ds
        ELSE sgn \o SubSeq(ds, 1, Len(ds) - a.f) \o <<".">>
                 \o SubSeq(ds, Len(ds) - a.f + 1, Len(ds))

DaysIn(y, mo) ==
    IF mo \in {4, 6, 9, 11} THEN 30
    ELSE IF mo = 2
         THEN (IF (y % 4 = 0 /\ y % 100 # 0) \/ y % 400 = 0 THEN 29 ELSE 28)
         ELSE 31

\* datetime.datetime.strptime(s, DATE_FMT); ok = FALSE is ValueError
ParseDate(s) ==
    LET parts == Split(s, "/")
        wellformed ==
            /\ Len(parts) = 3
            /\ Len(parts[1]) = 4 /\ IsDigit(parts[1])
            /\ Len(parts[2]) \in {1, 2} /\ IsDigit(parts[2])
            /\ Len(parts[3]) \in {1, 2} /\ IsDigit(parts[3])
        y  == DigitsVal(parts[1])
        mo == DigitsVal(parts[2])
        d  == DigitsVal(parts[3])
    IN  IF wellformed /\ y >= 1 /\ mo \in 1..12 /\ d \in 1..DaysIn(y, mo)
        THEN [ok |-> TRUE, v |-> y * 10000 + mo * 100 + d]
        ELSE [ok |-> FALSE, v |-> 0]

\* datetime.strftime(DATE_FMT)
DateStr(v) ==
    PadStr(v \div 10000, 4) \o <<"/">> \o PadStr((v \div 100) % 100, 2)
        \o <<"/">> \o PadStr(v % 100, 2)

\* datetime.datetime(1900, 1, 1)
DefaultStart == 19000101

-----------------------------------------------------------------------------
(* Move.                                                                   *)

NoMove == [index |-> 0]

\* Move.__init__(m, i, line); ok = FALSE is the exception it raises
MoveNew(mm, ii, ln) ==
    LET fields == Split(Strip(ln), " ")
        date   == ParseDate(fields[1])
        amount == ParseDecimal(RStrip(fields[2], {Euro}))
    IN  IF Len(fields) # 5 THEN [ok |-> FALSE, exc |-> "ValueError"]
        ELSE IF ~date.ok THEN [ok |-> FALSE, exc |-> "ValueError"]
        ELSE IF ~amount.ok THEN [ok |-> FALSE, exc |-> "InvalidOperation"]
        ELSE [ok |-> TRUE,
              move |-> [index       |-> mm,
                        line_number |-> ii,
                        date        |-> date.v,
                        amount      |-> [c |-> amount.c, f |-> amount.f],
                        category    |-> fields[4],
                        status      |-> fields[5],
                        kind        |-> fields[3],
                        description |-> None,
                        comment     |-> <<>>]]

\* Move.add(line)
MoveAdd(mv, ln) ==
    IF Strip(ln) # <<>>
    THEN IF mv.description = None
         THEN [mv EXCEPT !.description = Strip(ln)]
         ELSE [mv EXCEPT !.comment = @ \o StripChars(ln, {" "})]
    ELSE mv

\* Move.__lt__
MoveLt(a, b) == a.date < b.date

\* how the template prints a value: None prints as the text None
Rendered(v) == IF v = None THEN <<"N", "o", "n", "e">> ELSE v

\* Move.__str__: the template rendered (the engine drops the final
\* newline), stripped, followed by two newlines
MoveStr(mv) ==
    Strip(<<"\n">> \o DateStr(mv.date) \o <<" ">> \o DecStr(mv.amount)
          \o <<Euro, " ">> \o mv.kind \o <<" ">> \o mv.category \o <<" ">>
          \o mv.status \o <<"\n", " ", " ", " ", " ">> \o Rendered(mv.description)
          \o <<"\n", " ", " ", " ", " ">> \o mv.comment)
      \o <<"\n", "\n">>

\* a sort by date that puts a record before the earlier records of its date
RECURSIVE SortedTiesReversed(_)
SortedTiesReversed(s) ==
    IF s = <<>> THEN <<>>
    ELSE LET rest == SortedTiesReversed(SubSeq(s, 1, Len(s) - 1))
             x    == s[Len(s)]
             pos  == IF \E n \in 1..Len(rest) : MoveLt(rest[n], x)
                     THEN CHOOSE n \in 1..Len(rest) :
                             MoveLt(rest[n], x)
                             /\ \A j \in (n + 1)..Len(rest) : ~MoveLt(rest[j], x)
                     ELSE 0
         IN  SubSeq(rest, 1, pos) \o <<x>> \o SubSeq(rest, pos + 1, Len(rest))

\* sorted(): stable, ordered by Move.__lt__
RECURSIVE Sorted(_)
Sorted(s) ==
    IF s = <<>> THEN <<>>
    ELSE LET rest == Sorted(SubSeq(s, 1, Len(s) - 1))
             x    == s[Len(s)]
             \* x goes after the last element that is not greater than it
             pos  == IF \E n \in 1..Len(rest) : ~MoveLt(x, rest[n])
                     THEN CHOOSE n \in 1..Len(rest) :
                             ~MoveLt(x, rest[n])
                             /\ \A j \in (n + 1)..Len(rest) : MoveLt(x, rest[j])
                     ELSE 0
         IN  SubSeq(rest, 1, pos) \o <<x>> \o SubSeq(rest, pos + 1, Len(rest))

-----------------------------------------------------------------------------
(* Inputs: the lines a ledger file is made of, and the options.            *)

LDeclBk == <<"+", "+", " ", "b", "k", " ", "(", "C", "B", ",", "T", "R", ")", " ", "1", "0", ".", "0", "0", "\n">>

LDeclCa == <<"+", "+", " ", "c", "a", " ", "(", "E", "S", ")", " ", "5", "\n">>

LMoveA == <<"2", "0", "2", "0", "/", "0", "1", "/", "1", "5", " ", "-", "1", "0", ".", "0", "0", "EUR", " ", "C", "B", " ", "f", "o", " ", "P", "\n">>

LMoveB == <<"2", "0", "2", "0", "/", "0", "2", "/", "0", "1", " ", "5", "EUR", " ", "T", "R", " ", "f", "o", " ", "X", "\n">>

LMoveC == <<"2", "0", "1", "9", "/", "1", "2", "/", "3", "1", " ", "0", "EUR", " ", "T", " ", "r", "e", " ", "p", "\n">>

LText == <<" ", " ", "l", "u", "n", "c", "h", "\n">>

LNote == <<" ", "N", "o", "t", "e", "\n">>

LBlank == <<"\n">>

LMark == <<"-", "-", " ", "P", "1", "\n">>

LBang == <<"!", " ", "e", "n", "d", "\n">>

LinePool ==
    {LDeclBk, LDeclCa, LMoveA, LMoveB, LMoveC, LText, LNote, LBlank, LMark, LBang}

RECURSIVE SeqsUpTo(_, _)
SeqsUpTo(S, n) ==
    IF n = 0 THEN {<<>>}
    ELSE LET shorter == SeqsUpTo(S, n - 1)
         IN  shorter \cup {Append(s, x) : s \in {t \in shorter : Len(t) = n - 1}, x \in S}

\* the values of the options -s, -e, -g and --period that are tried
StartOptions == {None, <<"2", "0", "2", "0", "/", "0", "1", "/", "0", "1">>}

EndOptions == {<<"N", "o", "w">>, <<"2", "0", "2", "0", "/", "0", "1", "/", "3", "1">>}

GrepOptions == {<<>>, <<"f", "o">>}

PeriodOptions == {None, <<"P", "1">>, <<"P", "2">>}

\* what datetime.datetime.now() returns when -e is Now
NowOptions == {20201231}

DefaultArgs ==
    [s |-> None, e |-> <<"N", "o", "w">>, p |-> FALSE, x |-> FALSE, g |-> <<>>,
     period |-> None]

\* Parsing inputs: any file of up to MaxLines lines of the pool, with or
\* without a period, no record filter.
ParseInputs ==
    {<<f, [DefaultArgs EXCEPT !.period = per]>> :
        f \in SeqsUpTo(LinePool, MaxLines), per \in PeriodOptions}

\* Filtering inputs: declarations, headers and text under every combination
\* of the record filter's options.
MovePool == {LDeclBk, LMoveA, LMoveB, LMoveC, LText}

FilterInputs ==
    {<<f, a>> :
        f \in SeqsUpTo(MovePool, MaxMoveLines),
        a \in [s : StartOptions, e : EndOptions, p : BOOLEAN, x : BOOLEAN,
               g : GrepOptions, period : {None}]}

\* Period inputs: a ledger with a -- P1 marker, a ! line closing the period
\* and more lines after it, read with a period configured.
PeriodPool == {LDeclBk, LMoveA, LMoveB, LText}

OutsidePool == {LMoveA, LText}

PeriodInputs ==
    {<<pre \o <<LMark>> \o mid \o <<LBang>> \o post,
       [DefaultArgs EXCEPT !.period = per]>> :
        pre \in SeqsUpTo(OutsidePool, 1),
        mid \in SeqsUpTo(PeriodPool, MaxPeriodLines),
        post \in SeqsUpTo(OutsidePool, 2) \ {<<>>},
        per \in PeriodOptions \ {None}}

\* Malformed inputs: headers and declarations that do not match their
\* grammar, read with options that accept every record and with options that
\* reject every record.
LDeclShort == <<"+", "+", " ", "b", "k", "\n">>

LMoveShort == <<"2", "0", "2", "0", "/", "0", "1", "/", "1", "5", " ", "-", "1", "0", ".", "0", "0", "EUR", " ", "C", "B", " ", "f", "o", "\n">>

LMoveBadDate == <<"2", "0", "2", "0", "/", "1", "3", "/", "0", "1", " ", "-", "1", "0", ".", "0", "0", "EUR", " ", "C", "B", " ", "f", "o", " ", "P", "\n">>

LMoveBadAmount == <<"2", "0", "2", "0", "/", "0", "1", "/", "1", "5", " ", "x", "EUR", " ", "C", "B", " ", "f", "o", " ", "P", "\n">>

MalformedPool ==
    {LMoveA, LText, LDeclShort, LMoveShort, LMoveBadDate, LMoveBadAmount}

RejectAllArgs == [DefaultArgs EXCEPT !.p = TRUE, !.x = TRUE]

MalformedInputs ==
    {<<f, a>> : f \in SeqsUpTo(MalformedPool, MaxExtraLines),
                a \in {DefaultArgs, RejectAllArgs}}

\* Comment inputs: lines of every kind the iterator drops, no period.
LDollar == <<"$", " ", "1", "\n">>

LHash == <<"#", " ", "c", "\n">>

CommentPool == {LDollar, LHash, LBang, LMark, LMoveA, LText}

CommentInputs ==
    {<<f, DefaultArgs>> : f \in SeqsUpTo(CommentPool, MaxExtraLines)}

\* Substring inputs: -g with upper-case letters, with mixed case, and in
\* lower case.
CaseOptions == {<<"C", "B">>, <<"F", "o">>, <<"l", "u", "n", "c", "h">>}

GrepPool == {LMoveA, LMoveB, LText}

GrepInputs ==
    {<<f, [DefaultArgs EXCEPT !.g = g]>> :
        f \in SeqsUpTo(GrepPool, MaxExtraLines), g \in CaseOptions}

\* Balance inputs: records of several categories, two of them of equal
\* amounts.
LMoveD == <<"2", "0", "2", "0", "/", "0", "1", "/", "1", "5", " ", "-", "1", "0", "EUR", " ", "C", "B", " ", "g", "a", " ", "X", "\n">>

BalancePool == {LMoveA, LMoveB, LMoveC, LMoveD, LText}

BalanceInputs ==
    {<<f, DefaultArgs>> : f \in SeqsUpTo(BalancePool, MaxExtraLines)}

Inputs ==
    ParseInputs \cup FilterInputs \cup PeriodInputs \cup MalformedInputs
        \cup CommentInputs \cup GrepInputs \cup BalanceInputs

-----------------------------------------------------------------------------
(* MovesFile.iterator: the generator behind next(fd).                      *)

PTrue == <<"True">>

\* periode as iterator() sets it before reading the file
PeriodeOf(a) ==
    IF a.period # None /\ a.period # <<>>
    THEN <<"-", "-", " ">> \o a.period ELSE None

\* an iterator that a ! line ends whether or not a period is configured
RECURSIVE IterNextBangEnds(_, _, _)
IterNextBangEnds(f, ii, per) ==
    IF ii >= Len(f)
    THEN [yield |-> FALSE, i |-> ii, periode |-> per, line |-> <<>>]
    ELSE LET n  == ii + 1
             ln == f[n]
         IN  IF per # None /\ per # PTrue
             THEN IterNextBangEnds(f, n, IF StartsWith(ln, per) THEN PTrue ELSE per)
             ELSE IF StartsWith(ln, <<"!">>)
             THEN [yield |-> FALSE, i |-> n, periode |-> per, line |-> <<>>]
             ELSE IF ln[1] \in {"$", "!", "#", "-"}
             THEN IterNextBangEnds(f, n, per)
             ELSE [yield |-> TRUE, i |-> n, periode |-> per, line |-> ln]

\* one next(fd) from the generator state (ii, per) over the lines f:
\* yield = FALSE is StopIteration
RECURSIVE IterNext(_, _, _)
IterNext(f, ii, per) ==
    IF ii >= Len(f)
    THEN [yield |-> FALSE, i |-> ii, periode |-> per, line |-> <<>>]
    ELSE LET n  == ii + 1
             ln == f[n]
         IN  IF per # None /\ per # PTrue
             THEN IterNext(f, n, IF StartsWith(ln, per) THEN PTrue ELSE per)
             ELSE IF per = PTrue /\ StartsWith(ln, <<"!">>)
             THEN [yield |-> FALSE, i |-> n, periode |-> per, line |-> <<>>]
             ELSE IF ln[1] \in {"$", "!", "#", "-"}
             THEN IterNext(f, n, per)
             ELSE [yield |-> TRUE, i |-> n, periode |-> per, line |-> ln]

\* a generator that, once finished, hands out the line in hand again
NextFdRepeats ==
    IF it_done
    THEN [yield |-> TRUE, i |-> it_i, periode |-> it_periode, line |-> line]
    ELSE IterNext(file, it_i, it_periode)

\* next(fd) in the current state; a finished generator stays finished
NextFd ==
    IF it_done
    THEN [yield |-> FALSE, i |-> it_i, periode |-> it_periode, line |-> <<>>]
    ELSE IterNext(file, it_i, it_periode)

\* the effect of `i, line = next(fd)` on the generator and on i, line
TakeNext(r) ==
    /\ it_i' = r.i
    /\ it_periode' = r.periode
    /\ it_done' = ~r.yield
    /\ i' = IF r.yield THEN r.i ELSE i
    /\ line' = IF r.yield THEN r.line ELSE line

-----------------------------------------------------------------------------
(* MovesFile.filter.                                                       *)

\* a filter whose last test lets every date through
FilterIgnoresDates(a, sd, ed, mv) ==
    IF a.g # <<>> /\ ~Contains(ToLower(MoveStr(mv)), a.g) THEN FALSE
    ELSE IF a.p /\ ToUpper(mv.status) # <<"P">> THEN FALSE
    ELSE IF a.x /\ ToUpper(mv.status) # <<"X">> THEN FALSE
    ELSE TRUE

Filter(a, sd, ed, mv) ==
    IF a.g # <<>> /\ ~Contains(ToLower(MoveStr(mv)), a.g) THEN FALSE
    ELSE IF a.p /\ ToUpper(mv.status) # <<"P">> THEN FALSE
    ELSE IF a.x /\ ToUpper(mv.status) # <<"X">> THEN FALSE
    ELSE sd <= mv.date /\ mv.date <= ed

-----------------------------------------------------------------------------
(* The run: MovesFile(args) followed by the command.                       *)

EmptyMap == [n \in {} |-> 0]

MapSet(f, key, v) == [n \in DOMAIN f \cup {key} |-> IF n = key THEN v ELSE f[n]]

NoError == [exc |-> "", arg |-> <<>>]

Raise(exc, arg) ==
    /\ pc' = "error"
    /\ error' = [exc |-> exc, arg |-> arg]

Consumed(n, role) == [roles EXCEPT ![n] = @ \cup {role}]

Init ==
    /\ \E input \in Inputs : file = input[1] /\ args = input[2]
    /\ pc = "new"
    /\ it_i = 0
    /\ it_periode = None
    /\ it_done = FALSE
    /\ i = 0
    /\ line = <<>>
    /\ m = 0
    /\ move = NoMove
    /\ out = <<>>
    /\ start_date = 0
    /\ end_date = 0
    /\ accounts = EmptyMap
    /\ kinds = EmptyMap
    /\ moves = <<>>
    /\ balances = [in |-> EmptyMap, out |-> EmptyMap]
    /\ k = 0
    /\ error = NoError
    /\ report = [cmd |-> ""]
    /\ roles = [n \in 1..Len(file) |-> {}]

\* MovesFile.__init__, lines 95-109: the date range and the empty registry
Construct ==
    /\ pc = "new"
    /\ \E now \in NowOptions :
         LET sd == IF args.s # None THEN ParseDate(args.s)
                   ELSE [ok |-> TRUE, v |-> DefaultStart]
             ed == IF args.e = <<"N", "o", "w">> THEN [ok |-> TRUE, v |-> now]
                   ELSE ParseDate(args.e)
         IN  IF sd.ok /\ ed.ok
             THEN /\ start_date' = sd.v
                  /\ end_date' = ed.v
                  /\ pc' = "parse"
                  /\ error' = error
             ELSE /\ Raise("ValueError", <<>>)
                  /\ UNCHANGED <<start_date, end_date>>
    /\ UNCHANGED <<file, args, it_i, it_periode, it_done, i, line, m, move, out,
                   accounts, kinds, moves, balances, k, report, roles>>

\* parse(), lines 176-179: the first next(fd).  StopIteration raised here
\* escapes the generator body: the interpreter either ends the generator
\* silently or turns it into RuntimeError (PEP 479), depending on its version
ParseStart ==
    /\ pc = "parse"
    /\ LET r == IterNext(file, 0, PeriodeOf(args))
       IN  /\ TakeNext(r)
           /\ IF r.yield
              THEN pc' = "loop" /\ error' = error
              ELSE \E generator_stop \in BOOLEAN :
                      IF generator_stop
                      THEN Raise("RuntimeError", <<>>)
                      ELSE pc' = "sort" /\ error' = error
    /\ m' = 0
    /\ move' = NoMove
    /\ UNCHANGED <<file, args, out, start_date, end_date, accounts, kinds, moves,
                   balances, k, report, roles>>

\* line.startswith('++ ')
IsDeclaration(ln) == StartsWith(ln, <<"+", "+", " ">>)

\* line[:4].isdigit()
IsMoveStart(ln) == IsDigit(Slice(ln, 0, 4))

\* kinds[1:-2].split(',')
KindsOf(tok) == Split(Slice(tok, 1, Max(Len(tok) - 2, 0)), ",")

\* parse(), lines 181-191: an account declaration
ParseDeclaration ==
    /\ pc = "loop"
    /\ IsDeclaration(line)
    /\ LET toks   == Tail(SplitWS(line))
           amount == ParseDecimal(toks[3])
           ks     == KindsOf(toks[2])
           r      == NextFd
       IN  IF Len(toks) # 3
           THEN /\ Raise("ValueError", <<>>)
                /\ UNCHANGED <<accounts, kinds, it_i, it_periode,
                               it_done, i, line>>
           ELSE IF ~amount.ok
           THEN /\ Raise("InvalidOperation", <<>>)
                /\ UNCHANGED <<accounts, kinds, it_i, it_periode,
                               it_done, i, line>>
           ELSE /\ accounts' = MapSet(accounts, toks[1], [c |-> amount.c, f |-> amount.f])
                /\ kinds' = [n \in DOMAIN kinds \cup {ks[j] : j \in 1..Len(ks)} |->
                                IF \E j \in 1..Len(ks) : ks[j] = n
                                THEN toks[1] ELSE kinds[n]]
                /\ TakeNext(r)
                /\ pc' = IF r.yield THEN "loop" ELSE "sort"
                /\ error' = error
    /\ roles' = Consumed(i, "declaration")
    /\ UNCHANGED <<file, args, m, move, out, start_date, end_date, moves,
                   balances, k, report>>

\* parse(), lines 192-198: a transaction header opens a Move
ParseMoveStart ==
    /\ pc = "loop"
    /\ ~IsDeclaration(line)
    /\ IsMoveStart(line)
    /\ m' = m + 1
    /\ LET new == MoveNew(m + 1, i, line)
           r   == NextFd
       IN  IF ~new.ok
           THEN /\ Raise(new.exc, <<>>)
                /\ UNCHANGED <<move, it_i, it_periode, it_done, i, line>>
           ELSE /\ move' = new.move
                /\ TakeNext(r)
                /\ pc' = IF r.yield THEN "body" ELSE "sort"
                /\ error' = error
    /\ roles' = Consumed(i, "header")
    /\ UNCHANGED <<file, args, out, start_date, end_date, accounts, kinds, moves,
                   balances, k, report>>

\* parse(), lines 199-204: one turn of the inner loop
ParseMoveAdd ==
    /\ pc = "body"
    /\ ~IsMoveStart(line)
    /\ move' = MoveAdd(move, line)
    /\ LET r == NextFd
       IN  /\ TakeNext(r)
           /\ pc' = IF r.yield THEN "body" ELSE "close"
    /\ roles' = Consumed(i, "continuation")
    /\ UNCHANGED <<file, args, m, out, start_date, end_date, accounts, kinds,
                   moves, balances, k, error, report>>

\* parse(), lines 205-206: the inner loop is left, the Move is filtered
ParseMoveClose ==
    /\ \/ pc = "close"
       \/ pc = "body" /\ IsMoveStart(line)
    /\ out' = IF Filter(args, start_date, end_date, move)
              THEN Append(out, move) ELSE out
    /\ pc' = "loop"
    /\ UNCHANGED <<file, args, it_i, it_periode, it_done, i, line, m, move,
                   start_date, end_date, accounts, kinds, moves, balances, k,
                   error, report, roles>>

\* parse(), lines 207-211: any other line
ParseSkip ==
    /\ pc = "loop"
    /\ ~IsDeclaration(line)
    /\ ~IsMoveStart(line)
    /\ LET r == NextFd
       IN  /\ TakeNext(r)
           /\ pc' = IF r.yield THEN "loop" ELSE "sort"
    /\ roles' = Consumed(i, "ignored")
    /\ UNCHANGED <<file, args, m, move, out, start_date, end_date, accounts,
                   kinds, moves, balances, k, error, report>>

\* MovesFile.__init__, lines 110-114: the records are sorted, the balances
\* are created
SortMoves ==
    /\ pc = "sort"
    /\ moves' = Sorted(out)
    /\ balances' = [in |-> EmptyMap, out |-> EmptyMap]
    /\ k' = 0
    /\ pc' = "aggregate"
    /\ UNCHANGED <<file, args, it_i, it_periode, it_done, i, line, m, move, out,
                   start_date, end_date, accounts, kinds, error, report, roles>>

\* a coefficient that ignores reverse
CoefIgnoresReverse(side) == 1

\* Balance.__init__: coef
Coef(side) == IF side = "in" THEN 1 ELSE -1

\* MovesFile.__init__, lines 116-119: the balance a Move goes to
BalanceOf(mv) == IF mv.amount.c > 0 THEN "in" ELSE "out"

\* a bucket that is overwritten instead of added to
AccumulateOverwrites(bal, cat, amount) == MapSet(bal, cat, amount)

\* MovesFile.__init__, lines 121-125: the category's bucket takes the amount
Accumulate(bal, cat, amount) ==
    IF cat \in DOMAIN bal
    THEN MapSet(bal, cat, DecAdd(bal[cat], amount))
    ELSE MapSet(bal, cat, amount)

\* an account that is reset to the amount instead of adjusted by it
AdjustResets(acc, account, amount) == [acc EXCEPT ![account] = amount]

\* MovesFile.__init__, line 130: the account takes the amount
Adjust(acc, account, amount) ==
    [acc EXCEPT ![account] = DecAdd(@, amount)]

\* MovesFile.__init__, lines 115-133: one turn of the aggregation loop
Aggregate ==
    /\ pc = "aggregate"
    /\ k < Len(moves)
    /\ LET mv   == moves[k + 1]
           side == BalanceOf(mv)
       IN  /\ balances' = [balances EXCEPT ![side] =
                             Accumulate(@, mv.category, mv.amount)]
           /\ IF accounts # EmptyMap
              THEN IF mv.kind \in DOMAIN kinds
                   THEN /\ accounts' = Adjust(accounts, kinds[mv.kind], mv.amount)
                        /\ UNCHANGED <<pc, error>>
                   ELSE /\ Raise("TypeError", mv.kind)
                        /\ UNCHANGED accounts
              ELSE UNCHANGED <<accounts, pc, error>>
    /\ k' = k + 1
    /\ UNCHANGED <<file, args, it_i, it_periode, it_done, i, line, m, move, out,
                   start_date, end_date, kinds, moves, report, roles>>

\* sum(values) for the values of a dict, starting from the int 0
RECURSIVE SumValues(_)
SumValues(f) ==
    IF DOMAIN f = {} THEN DecZero
    ELSE LET key == CHOOSE n \in DOMAIN f : TRUE
         IN  DecAdd(f[key], SumValues([n \in DOMAIN f \ {key} |-> f[n]]))

\* Balance.sum
BalanceSum(side) == DecMul(SumValues(balances[side]), Coef(side))

\* the printable ASCII characters in code point order (the grave accent,
\* which no text of the model holds, is spelled out)
Ascii ==
    <<" ", "!", "\"", "#", "$", "%", "&", "'", "(", ")", "*", "+", ",", "-",
      ".", "/", "0", "1", "2", "3", "4", "5", "6", "7", "8", "9", ":", ";",
      "<", "=", ">", "?", "@", "A", "B", "C", "D", "E", "F", "G", "H", "I",
      "J", "K", "L", "M", "N", "O", "P", "Q", "R", "S", "T", "U", "V", "W",
      "X", "Y", "Z", "[", "\\", "]", "^", "_", "grave", "a", "b", "c", "d", "e",
      "f", "g", "h", "i", "j", "k", "l", "m", "n", "o", "p", "q", "r", "s",
      "t", "u", "v", "w", "x", "y", "z", "{", "|", "}", "~">>

\* ord(c)
CharCode(c) ==
    IF c = Euro THEN 8364
    ELSE IF \E n \in 1..Len(Ascii) : Ascii[n] = c
    THEN 31 + (CHOOSE n \in 1..Len(Ascii) : Ascii[n] = c)
    ELSE 10

\* str < str
RECURSIVE StrLt(_, _)
StrLt(a, b) ==
    IF b = <<>> THEN FALSE
    ELSE IF a = <<>> THEN TRUE
    ELSE IF a[1] = b[1] THEN StrLt(Tail(a), Tail(b))
    ELSE CharCode(a[1]) < CharCode(b[1])

\* Decimal < Decimal
DecLt(a, b) == a.c * Pow10(b.f) < b.c * Pow10(a.f)

\* (v, k) < (w, l) for tuples of a Decimal and a str
ItemLt(p, q) ==
    IF DecEq(p[1], q[1]) THEN StrLt(p[2], q[2]) ELSE DecLt(p[1], q[1])

\* sorted(items, reverse=True) for items of distinct keys
RECURSIVE SortedReverse(_)
SortedReverse(items) ==
    IF items = {} THEN <<>>
    ELSE LET top == CHOOSE p \in items : \A q \in items \ {p} : ItemLt(q, p)
         IN  <<top>> \o SortedReverse(items \ {top})

\* Balance.__iter__, line 32: the (v * coef, k) of the balance's items
ScaledItems(side) ==
    {<<DecMul(balances[side][cat], Coef(side)), cat>> : cat \in DOMAIN balances[side]}

\* an iteration in ascending order, as sorted() without reverse=True
BalanceIterAscending(side) ==
    LET items == SortedReverse(ScaledItems(side))
    IN  [n \in 1..Len(items) |->
            <<items[Len(items) + 1 - n][2], items[Len(items) + 1 - n][1]>>]

\* Balance.__iter__: the (k, v) of the sorted items
BalanceIter(side) ==
    LET items == SortedReverse(ScaledItems(side))
    IN  [n \in 1..Len(items) |-> <<items[n][2], items[n][1]>>]

\* pyash(), lines 263-265: nothing to report
CommandEmpty ==
    /\ pc = "aggregate"
    /\ k = Len(moves)
    /\ moves = <<>>
    /\ report' = [cmd |-> "none"]
    /\ pc' = "done"
    /\ UNCHANGED <<file, args, it_i, it_periode, it_done, i, line, m, move, out,
                   start_date, end_date, accounts, kinds, moves, balances, k,
                   error, roles>>

\* pyash(), lines 266-275 with MovesFile.title, MovesFile.balance and
\* Balance.__str__
CommandBalance ==
    /\ pc = "aggregate"
    /\ k = Len(moves)
    /\ moves # <<>>
    /\ report' = [cmd      |-> "balance",
                  title    |-> <<DateStr(moves[1].date), DateStr(moves[Len(moves)].date)>>,
                  recettes |-> BalanceSum("in"),
                  depenses |-> BalanceSum("out"),
                  resultat |-> DecAdd(BalanceSum("in"), DecNeg(BalanceSum("out"))),
                  in_items |-> BalanceIter("in"),
                  out_items |-> BalanceIter("out"),
                  soldes   |-> accounts]
    /\ pc' = "done"
    /\ UNCHANGED <<file, args, it_i, it_periode, it_done, i, line, m, move, out,
                   start_date, end_date, accounts, kinds, moves, balances, k,
                   error, roles>>

\* pyash(), lines 276-278
CommandShow ==
    /\ pc = "aggregate"
    /\ k = Len(moves)
    /\ moves # <<>>
    /\ report' = [cmd   |-> "show",
                  shown |-> [n \in 1..Len(moves) |->
                               <<Strip(MoveStr(moves[n])), moves[n].line_number>>]]
    /\ pc' = "done"
    /\ UNCHANGED <<file, args, it_i, it_periode, it_done, i, line, m, move, out,
                   start_date, end_date, accounts, kinds, moves, balances, k,
                   error, roles>>

Next ==
    \/ Construct
    \/ ParseStart
    \/ ParseDeclaration
    \/ ParseMoveStart
    \/ ParseMoveAdd
    \/ ParseMoveClose
    \/ ParseSkip
    \/ SortMoves
    \/ Aggregate
    \/ CommandEmpty
    \/ CommandBalance
    \/ CommandShow

Spec == Init /\ [][Next]_vars

-----------------------------------------------------------------------------
(* Properties.                                                             *)

\* parse() has returned: the run is in MovesFile.__init__ past line 110, or over
Parsed == pc \in {"sort", "aggregate", "done"}

\* the options reject no record of the pool on its own
AcceptAll == args.g = <<>> /\ ~args.p /\ ~args.x /\ args.s = None /\ args.e = <<"N", "o", "w">>

\* C1: a record still open when the forwarded lines end is closed, filtered
\* and emitted if it passes the filter, whether continuation lines followed
\* its header or the header was the last forwarded line.
C1_OpenRecordEmittedAtEnd ==
    (pc = "sort" /\ move # NoMove /\ Filter(args, start_date, end_date, move))
        => \E n \in 1..Len(out) : out[n] = move

\* the first line of f that starts with the marker of period per, 0 if none
MarkerLine(f, per) ==
    LET hits == {n \in 1..Len(f) : StartsWith(f[n], <<"-", "-", " ">> \o per)}
    IN  IF hits = {} THEN 0 ELSE CHOOSE n \in hits : \A j \in hits : n <= j

\* the first line of f after line a that starts with !, 0 if none
BangLine(f, a) ==
    LET hits == {n \in (a + 1)..Len(f) : StartsWith(f[n], <<"!">>)}
    IN  IF hits = {} THEN 0 ELSE CHOOSE n \in hits : \A j \in hits : n <= j

\* f is: lines, the marker of per, only transaction headers, a ! line, then
\* lines with at least one more transaction header
PeriodLedger(f, per) ==
    LET a == MarkerLine(f, per)
        b == BangLine(f, a)
    IN  /\ a > 0
        /\ b > 0
        /\ \A n \in (a + 1)..(b - 1) : IsMoveStart(f[n])
        /\ \E n \in (b + 1)..Len(f) : IsMoveStart(f[n])

\* C2: with a period configured and a ledger made of the period's marker, N
\* transaction headers, a ! line and more transactions, parsing under an
\* accept-all filter produces exactly N records, none of them from a line
\* after the ! line.
C2_PeriodShowsItsTransactions ==
    (pc = "sort" /\ args.period # None /\ AcceptAll /\ PeriodLedger(file, args.period))
        => LET a == MarkerLine(file, args.period)
               b == BangLine(file, a)
           IN  /\ Len(out) = b - a - 1
               /\ \A n \in 1..Len(out) : out[n].line_number < b

\* the iterator forwards no line of the file at all
ForwardsNothing == ~IterNext(file, 0, PeriodeOf(args)).yield

\* C3: when the iterator forwards no line (the period's marker is never found,
\* or nothing survives), the run raises no error and the record list is
\* empty.
C3_NothingForwardedIsNoError ==
    ForwardsNothing => (error = NoError /\ out = <<>> /\ moves = <<>>)

\* C4: a declaration line met inside an open transaction body is not added to
\* the record's description or comment, and once parsing is over it has been
\* processed as a declaration.
C4_DeclarationClosesRecord ==
    \A n \in 1..Len(file) :
        (IsDeclaration(file[n]) /\ roles[n] # {})
            => /\ "continuation" \notin roles[n]
               /\ Parsed => "declaration" \in roles[n]

\* the kind list of the documented form (k1,k2,...,kn): the tokens between
\* the parentheses
DocumentedKinds(tok) ==
    LET ks == Split(SubSeq(tok, 2, Len(tok) - 1), ",")
    IN  {ks[j] : j \in 1..Len(ks)}

\* ln has the documented form ++ A (k1,...,kn) amt
DocumentedDeclaration(ln) ==
    LET toks == SplitWS(ln)
    IN  /\ Len(toks) = 4
        /\ toks[1] = <<"+", "+">>
        /\ Len(toks[3]) >= 3
        /\ toks[3][1] = "(" /\ toks[3][Len(toks[3])] = ")"
        /\ <<>> \notin DocumentedKinds(toks[3])
        /\ ParseDecimal(toks[4]).ok

\* C5: processing a declaration line ++ A (k1,...,kn) amt leaves the registry
\* mapping account A to amt and every kind k1..kn, unaltered, to A.
C5_DeclarationRegistersKinds ==
    [][(pc = "loop" /\ IsDeclaration(line) /\ DocumentedDeclaration(line))
        => LET toks == SplitWS(line)
           IN  /\ toks[2] \in DOMAIN accounts'
               /\ accounts'[toks[2]] = [c |-> ParseDecimal(toks[4]).c,
                                        f |-> ParseDecimal(toks[4]).f]
               /\ \A kd \in DocumentedKinds(toks[3]) :
                     kd \in DOMAIN kinds' /\ kinds'[kd] = toks[2]]_vars

\* the kinds the ledger declares: those of the documented declaration lines
\* the parser processed as declarations
DeclaredKinds ==
    UNION {DocumentedKinds(SplitWS(file[n])[3]) :
             n \in {j \in 1..Len(file) :
                      "declaration" \in roles[j] /\ DocumentedDeclaration(file[j])}}

\* C6: with a non-empty registry, aggregation does not get past a record
\* whose kind was never declared: it fails with an unknown-kind error naming
\* that kind and nothing is reported; with an empty registry the error never
\* occurs.
C6_UnknownKindAborts ==
    /\ (pc \in {"aggregate", "done"} /\ accounts # EmptyMap)
           => \A n \in 1..k : moves[n].kind \in DeclaredKinds
    /\ error.exc = "TypeError"
           => accounts # EmptyMap /\ k >= 1 /\ error.arg = moves[k].kind

\* the sum of the amounts of a sequence of records
RECURSIVE SumAmounts(_)
SumAmounts(s) ==
    IF s = <<>> THEN DecZero ELSE DecAdd(s[1].amount, SumAmounts(Tail(s)))

\* the records the aggregation loop has taken so far
Aggregated == SubSeq(moves, 1, k)

\* the amount of the last declaration processed for account a
DeclaredAmount(a) ==
    LET ns == {n \in 1..Len(file) :
                 /\ "declaration" \in roles[n]
                 /\ Len(SplitWS(file[n])) = 4
                 /\ SplitWS(file[n])[2] = a}
        n  == CHOOSE n \in ns : \A j \in ns : j <= n
        d  == ParseDecimal(SplitWS(file[n])[4])
    IN  [c |-> d.c, f |-> d.f]

\* C7: with a non-empty registry and no error, the total of every declared
\* account is its declared amount plus the amounts of the aggregated records
\* whose kind maps to that account.
C7_AccountTotals ==
    pc \in {"aggregate", "done"}
        => \A a \in DOMAIN accounts :
              DecEq(accounts[a],
                    DecAdd(DeclaredAmount(a),
                           SumAmounts(SelectSeq(Aggregated,
                               LAMBDA mv : /\ mv.kind \in DOMAIN kinds
                                           /\ kinds[mv.kind] = a))))

\* the run is over, an account was declared and a record with a non-zero
\* amount was added to an account
C7_Witness ==
    /\ pc = "done"
    /\ accounts # EmptyMap
    /\ \E n \in 1..Len(moves) :
          moves[n].amount.c # 0 /\ moves[n].kind \in DOMAIN kinds

\* C8: every record parse() has yielded, and every record of the list held
\* afterwards, has its date within [start_date, end_date], whatever the other
\* options are.
C8_EmittedWithinRange ==
    /\ \A n \in 1..Len(out) : start_date <= out[n].date /\ out[n].date <= end_date
    /\ \A n \in 1..Len(moves) : start_date <= moves[n].date /\ moves[n].date <= end_date

\* a record was emitted and, with a substring filter configured, the record
\* just closed passed every other predicate and was rejected for its date
C8_Witness ==
    /\ pc = "loop"
    /\ Len(out) >= 1
    /\ move # NoMove
    /\ args.g # <<>>
    /\ Filter(args, DefaultStart, 99991231, move)
    /\ ~(start_date <= move.date /\ move.date <= end_date)
    /\ \A n \in 1..Len(out) : out[n] # move

\* the categories of a sequence of records
Categories(s) == {s[n].category : n \in 1..Len(s)}

Income(s) == SelectSeq(s, LAMBDA mv : mv.amount.c > 0)

Expense(s) == SelectSeq(s, LAMBDA mv : mv.amount.c <= 0)

\* balance bal holds exactly the records s, bucketed by category
Bucketed(bal, s) ==
    /\ DOMAIN bal = Categories(s)
    /\ \A cat \in DOMAIN bal :
          DecEq(bal[cat], SumAmounts(SelectSeq(s, LAMBDA mv : mv.category = cat)))
    /\ DecEq(SumValues(bal), SumAmounts(s))

\* C9: every aggregated record is in exactly one balance, under its category:
\* the income balance if its amount is > 0, the expense balance otherwise; so
\* the income values sum to the positive amounts and the expense values to the
\* non-positive ones; when the run is over every emitted record has been
\* aggregated.
C9_OneBucketPerRecord ==
    /\ Bucketed(balances["in"], Income(Aggregated))
    /\ Bucketed(balances["out"], Expense(Aggregated))
    /\ pc = "done" => (k = Len(moves) /\ Len(moves) = Len(out))

\* the run is over with records in both balances, one of amount zero or two
\* in one bucket
C9_Witness ==
    /\ pc = "done"
    /\ balances["in"] # EmptyMap
    /\ balances["out"] # EmptyMap
    /\ \/ \E n \in 1..Len(moves) : moves[n].amount.c = 0
       \/ Len(moves) > Cardinality(DOMAIN balances["in"]) + Cardinality(DOMAIN balances["out"])

\* C10: the totals balance() reports are the sums of the balances' entries
\* scaled by their coefficient, and its Resultat is the sum of the amounts of
\* all the records.
C10_ResultatIsNet ==
    (pc = "done" /\ report.cmd = "balance")
        => /\ DecEq(report.recettes, SumAmounts(Income(moves)))
           /\ DecEq(report.depenses, DecNeg(SumAmounts(Expense(moves))))
           /\ DecEq(report.resultat, SumAmounts(moves))

\* balance() has reported on records of both signs
C10_Witness ==
    /\ pc = "done"
    /\ report.cmd = "balance"
    /\ \E n \in 1..Len(moves) : moves[n].amount.c > 0
    /\ \E n \in 1..Len(moves) : moves[n].amount.c < 0

\* the physical numbers of the lines iterator() yields from state (ii, per)
RECURSIVE ForwardedFrom(_, _, _)
ForwardedFrom(f, ii, per) ==
    LET r == IterNext(f, ii, per)
    IN  IF r.yield THEN <<r.i>> \o ForwardedFrom(f, r.i, r.periode) ELSE <<>>

\* the physical numbers of the lines the run's iterator forwards, in order
Forwarded == ForwardedFrom(file, 0, PeriodeOf(args))

\* a transaction-start line that is not five single-space-separated fields
\* with a valid date and a valid amount
MalformedHeader(ln) == IsMoveStart(ln) /\ ~MoveNew(0, 0, ln).ok

\* a declaration line that is not `++`, an account, a kinds token and an
\* amount
MalformedDeclaration(ln) == IsDeclaration(ln) /\ Len(SplitWS(ln)) # 4

\* C11: when a forwarded transaction-start line or a forwarded declaration
\* line is malformed, the run aborts with an error and produces no record
\* list, whatever the filter would have decided: parse() never returns.
C11_MalformedLineAborts ==
    (\E n \in 1..Len(Forwarded) :
        \/ MalformedHeader(file[Forwarded[n]])
        \/ MalformedDeclaration(file[Forwarded[n]]))
        => ~Parsed

\* the forwarded lines are well formed: every header and every declaration
\* among them matches its grammar
WellFormed ==
    \A n \in 1..Len(Forwarded) :
        /\ ~MalformedHeader(file[Forwarded[n]])
        /\ ~MalformedDeclaration(file[Forwarded[n]])
        /\ IsDeclaration(file[Forwarded[n]])
            => ParseDecimal(SplitWS(file[Forwarded[n]])[4]).ok

\* the run is over: the command has returned or an exception has left it
Over == pc \in {"done", "error"}

\* C12: when no record survives filtering, balance and show find the record
\* list empty and finish with a neutral result and no error, and title() is
\* never evaluated on an empty record list.
C12_EmptyListIsNeutral ==
    /\ (Over /\ WellFormed /\ out = <<>>)
            => (pc = "done" /\ moves = <<>> /\ report.cmd = "none")
    /\ report.cmd = "balance" => moves # <<>>

\* C13: once MovesFile() has sorted them, the records are in ascending date
\* order, records of equal dates in the order parse() produced them
\* (increasing index), they are the records parse() produced, and sorting
\* them again changes nothing.
C13_SortedByDateStable ==
    pc \in {"aggregate", "done"}
        => /\ Len(moves) = Len(out)
           /\ \A n \in 1..Len(out) : \E j \in 1..Len(moves) : moves[j] = out[n]
           /\ \A a \in 1..Len(moves) : \A b \in (a + 1)..Len(moves) :
                /\ moves[a].date <= moves[b].date
                /\ moves[a].date = moves[b].date
                    => moves[a].index < moves[b].index
           /\ Sorted(moves) = moves

\* the sorted list differs from the list parse() produced
C13_Witness ==
    /\ pc = "done"
    /\ Len(moves) >= 2
    /\ moves # out

\* the position among the forwarded lines of physical line number ln
ForwardedAt(ln) == CHOOSE p \in 1..Len(Forwarded) : Forwarded[p] = ln

\* the continuation lines of the header forwarded at position p: the
\* forwarded lines after it and before the next transaction header,
\* stripped, without the blank ones
ContinuationLines(p) ==
    LET later == {q \in (p + 1)..Len(Forwarded) : IsMoveStart(file[Forwarded[q]])}
        stop  == IF later = {} THEN Len(Forwarded) + 1
                 ELSE CHOOSE q \in later : \A j \in later : q <= j
        body  == [j \in 1..(stop - p - 1) |-> Strip(file[Forwarded[p + j]])]
    IN  SelectSeq(body, LAMBDA s : s # <<>>)

\* the lines of s from the n-th on, each prefixed by a single space
RECURSIVE SpaceJoined(_, _)
SpaceJoined(s, n) ==
    IF n > Len(s) THEN <<>> ELSE <<" ">> \o s[n] \o SpaceJoined(s, n + 1)

\* C14: the description of a record is the first non-empty continuation line
\* after its header (absent when there is none) and its comment is the
\* concatenation, in order, of the following non-empty continuation lines,
\* each prefixed by a single space; blank lines and the lines from the next
\* header on contribute nothing.
C14_DescriptionAndComment ==
    \A n \in 1..Len(out) :
        LET c == ContinuationLines(ForwardedAt(out[n].line_number))
        IN  /\ out[n].description = IF c = <<>> THEN None ELSE c[1]
            /\ out[n].comment = SpaceJoined(c, 2)

\* the physical numbers of the lines of the file whose first character is
\* none of $ ! # -, in order
RECURSIVE ContentLines(_)
ContentLines(n) ==
    IF n = 0 THEN <<>>
    ELSE ContentLines(n - 1)
            \o (IF file[n][1] \in {"$", "!", "#", "-"} THEN <<>> ELSE <<n>>)

\* C15: with no period configured the iterator forwards, in order and
\* unchanged, exactly the lines whose first character is none of $ ! # -,
\* each with its 1-based physical line number, a ! line never ending the
\* stream; so the line number every record holds is the physical number of
\* its header line.
C15_ForwardsContentLines ==
    args.period = None
        => /\ Forwarded = ContentLines(Len(file))
           /\ pc \in {"loop", "body", "close"}
                => (i \in 1..Len(file) /\ line = file[i])
           /\ \A n \in DOMAIN roles :
                roles[n] # {} => file[n][1] \notin {"$", "!", "#", "-"}
           /\ Parsed => \A n \in DOMAIN roles :
                roles[n] = {} => file[n][1] \in {"$", "!", "#", "-"}
           /\ \A n \in 1..Len(out) :
                LET h == out[n].line_number
                IN  /\ h \in 1..Len(file)
                    /\ "header" \in roles[h]
                    /\ MoveNew(out[n].index, h, file[h]).ok
                    /\ MoveNew(out[n].index, h, file[h]).move
                         = [out[n] EXCEPT !.description = None, !.comment = <<>>]

\* a run without period has emitted a record whose header comes after a !
\* line
C15_Witness ==
    /\ args.period = None
    /\ \E n \in 1..Len(out) :
        \E j \in 1..(out[n].line_number - 1) : file[j][1] = "!"

\* what the iteration of a balance of coefficient coef must be: every category
\* once, with its amount scaled, largest scaled value first and equal values
\* by category descending
IteratesDescending(items, bal, coef) ==
    /\ Len(items) = Cardinality(DOMAIN bal)
    /\ \A cat \in DOMAIN bal :
        \E n \in 1..Len(items) : items[n] = <<cat, DecMul(bal[cat], coef)>>
    /\ \A n \in 1..(Len(items) - 1) :
        \/ DecLt(items[n + 1][2], items[n][2])
        \/ /\ DecEq(items[n + 1][2], items[n][2])
           /\ StrLt(items[n + 1][1], items[n][1])

\* C16: iterating a Balance yields every category exactly once, paired with
\* its amount scaled by the balance's coefficient (+1 income, -1 expense), in
\* descending order of (scaled value, category).
C16_BalanceIteration ==
    (pc = "done" /\ report.cmd = "balance")
        => /\ IteratesDescending(report.in_items, balances["in"], 1)
           /\ IteratesDescending(report.out_items, balances["out"], 0 - 1)

\* the expense balance iterated holds two categories of equal scaled values
C16_Witness ==
    /\ pc = "done"
    /\ report.cmd = "balance"
    /\ \E n \in 1..(Len(report.out_items) - 1) :
        DecEq(report.out_items[n][2], report.out_items[n + 1][2])

\* the tests of filter() other than the substring test
PassesOtherTests(mv) ==
    Filter([args EXCEPT !.g = <<>>], start_date, end_date, mv)

\* C17: the substring filter ignores case: a record that passes the other
\* tests is accepted exactly when its rendered text, compared ignoring case,
\* contains the configured substring, so a substring with upper-case letters
\* still accepts the records that match it.
C17_SubstringIgnoresCase ==
    (pc = "loop" /\ move # NoMove /\ args.g # <<>> /\ PassesOtherTests(move))
        => ((\E n \in 1..Len(out) : out[n] = move)
                <=> Contains(ToLower(MoveStr(move)), ToLower(args.g)))

\* C18: every forwarded line is consumed in exactly one role (declaration,
\* header, continuation or ignored): never in two, and none is left without
\* a role when parse() returns; in particular no line, the last one included,
\* is both appended to a record and registered as a declaration.
C18_OneRolePerLine ==
    /\ \A n \in DOMAIN roles : Cardinality(roles[n]) <= 1
    /\ \A n \in DOMAIN roles : ~({"continuation", "declaration"} \subseteq roles[n])
    /\ Parsed => \A n \in 1..Len(Forwarded) : roles[Forwarded[n]] # {}

\* parse() is running
InParse == pc \in {"parse", "loop", "body", "close"}

\* what parse() still has to do: the lines the iterator has not read, then
\* the steps left on the line in hand
ParseVariant ==
    IF ~InParse THEN 0
    ELSE 4 * (Len(file) - it_i)
            + (CASE pc = "body" -> 3 [] pc = "close" -> 2 [] OTHER -> 1)

\* C19: parse() terminates: each of its steps strictly lowers a measure of
\* the work left that is bounded below, and every turn of its outer loop
\* advances the line iterator or leaves parse(), also with the line left in
\* hand when the stream ends inside a body.
C19_ParseTerminates ==
    [][InParse => /\ ParseVariant > 0
                  /\ ParseVariant' >= 0
                  /\ ParseVariant' < ParseVariant
                  /\ pc = "loop" => (it_i' > it_i \/ ~InParse')]_vars

\* the outer loop holds again the last line of a body after the stream has
\* ended
C19_Witness ==
    /\ pc = "loop"
    /\ it_done
    /\ "continuation" \in roles[i]

====
